---- MODULE Spec2Model ----
(***************************************************************************)
(* Per-segment query execution of tantivy (fork YpeKingma/tantivy):        *)
(* BooleanWeight (query/boolean_query/boolean_weight.rs), the Scorer bulk  *)
(* helpers (query/scorer.rs), the TwoPhase companion (query/twophase.rs)   *)
(* and PhraseWeight (query/phrase_query/phrase_weight.rs).                 *)
(*                                                                         *)
(* Five specifications share the module:                                   *)
(*   Spec        BooleanWeight::scorer / explain over a clause list        *)
(*   SpecScorer  Scorer::for_each / for_each_pruning / two_phase           *)
(*   SpecPhrase  PhraseWeight::scorer / explain over a small segment       *)
(*   SpecDocSet  advance / seek on the scorers the two weights return      *)
(*   SpecHandles RcRefCellScorer / BorrowScorer handles on a shared cell   *)
(***************************************************************************)
EXTENDS Integers, Sequences, FiniteSets, TLC

\* ---------------------------------------------------------------- bounds
\* Documents of the segment are 0..MaxDocId.
MaxDocId == 1
\* A BooleanWeight holds at most MaxClauses (Occur, sub-Weight) pairs.
MaxClauses == 2
\* Scores and thresholds of the bulk helpers are 0..MaxScore.
MaxScore == 2
\* A document of the segment holds at most MaxDocLen tokens.
MaxDocLen == 2

\* ------------------------------------------------------------- constants
\* docset::TERMINATED, the sentinel a DocSet returns once exhausted: a DocId
\* above every document of a segment.
TERMINATED == 2147483647

Docs == 0..MaxDocId

DocIds == Docs \cup {TERMINATED}

Occurs == {"Must", "Should", "MustNot"}

\* The boosts handed to Weight::scorer (explain always passes 1.0).
Boosts == {1, 2}

VARIABLES
  weights,          \* BooleanWeight.weights: Seq of [occur, docs]
  scoring_enabled,  \* BooleanWeight.scoring_enabled
  pc,               \* which call has been made on the weight / scorer
  result,           \* what Weight::scorer returned
  boost,            \* the boost argument of the last scorer() call
  io_failed,        \* a sub-weight's postings lookup failed during the call
  emitted,          \* the (doc, score) pairs read off the scorer so far
  explain_doc,      \* the doc argument of the last explain() call
  explanation       \* what Weight::explain returned

boolVars == <<weights, scoring_enabled, pc, result, boost, io_failed, emitted,
              explain_doc, explanation>>

VARIABLES
  host,             \* the scorer for_each / for_each_pruning runs on
  start,            \* that scorer as it was when the helper was entered
  helper,           \* the bulk helper that was called on it
  fpc,              \* where the running helper is
  threshold,        \* for_each_pruning's threshold
  trace             \* the calls made so far: <<operation, doc, score>>

scorerVars == <<host, start, helper, fpc, threshold, trace>>

VARIABLES
  segment,          \* the segment's documents: doc id -> sequence of tokens
  deleted,          \* the segment's deleted documents
  phrase_terms      \* PhraseWeight.phrase_terms: Seq of <<offset, term>>

phraseVars == <<segment, deleted, phrase_terms>>

VARIABLES
  returned,         \* what the last advance() / seek() of a consumer returned
  after_end         \* a call was made after one had returned TERMINATED

docsetVars == <<returned, after_end>>

VARIABLES
  cells,            \* the shared cells: Seq of [scorer, borrow]
  companion,        \* the cell the TwoPhase companion refers to, if obtained
  hpc,              \* where the user of the handles is
  last_op           \* the last call made through a handle and its outcome

handleVars == <<cells, companion, hpc, last_op>>

vars == <<boolVars, scorerVars, phraseVars, docsetVars, handleVars>>

\* --------------------------------------------------------------- scores
\* A Score is a non-negative rational <<numerator, denominator>>.
Zero == <<0, 1>>

RAdd(a, b) == <<a[1] * b[2] + b[1] * a[2], a[2] * b[2]>>

RScale(a, n, d) == <<a[1] * n, a[2] * d>>

RECURSIVE RSum(_)
RSum(scores) ==
  IF scores = <<>> THEN Zero ELSE RAdd(Head(scores), RSum(Tail(scores)))

\* ------------------------------------------------------------- utilities
MinOf(S) == CHOOSE x \in S : \A y \in S : x <= y

MaxOf(S) == CHOOSE x \in S : \A y \in S : x >= y

RECURSIVE SortedSeq(_)
SortedSeq(S) ==
  IF S = {} THEN <<>> ELSE LET m == MinOf(S) IN <<m>> \o SortedSeq(S \ {m})

Range(f) == {f[i] : i \in DOMAIN f}

\* -------------------------------------------------------------- scorers
\* A scorer is a tree of records; every node answers doc / advance / seek /
\* score.  A scorer is positioned on its first document when constructed
\* (scorer.rs:25 reads doc() before the first advance()).

\* The scorer of a sub-weight of the boolean query: a cursor over the sorted
\* documents the clause matches in the segment.
SubScorer(docs, b) ==
  [kind |-> "Sub", docs |-> SortedSeq(docs), pos |-> 1, boost |-> b]

EmptyScorer == [kind |-> "Empty"]

\* ScoreCombiner: DoNothingCombiner ignores the sub-scores, SumWithCoords
\* sums them and multiplies by (matching sub-clauses / total sub-clauses).
Combine(comb, scores, total) ==
  IF comb = "DoNothing" THEN Zero
  ELSE RScale(RSum(scores), Len(scores), total)

RECURSIVE Doc(_), Advance(_), Seek(_, _), Score(_), UnionFrom(_, _),
          Align(_), ExcludeSettle(_, _)

\* Union::from / Union::advance: take the minimum current document of the
\* sub-scorers, combine the scores of every sub-scorer on it, and move
\* those sub-scorers past it.
UnionFrom(subs, comb) ==
  LET m == MinOf({Doc(subs[i]) : i \in DOMAIN subs}) IN
  IF m = TERMINATED
  THEN [kind |-> "Union", subs |-> subs, comb |-> comb,
        doc |-> TERMINATED, score |-> Zero]
  ELSE LET hit == SelectSeq(subs, LAMBDA s : Doc(s) = m) IN
       [kind |-> "Union",
        subs |-> [i \in DOMAIN subs |->
                    IF Doc(subs[i]) = m THEN Advance(subs[i]) ELSE subs[i]],
        comb |-> comb,
        doc |-> m,
        score |-> Combine(comb, [i \in DOMAIN hit |-> Score(hit[i])], Len(subs))]

\* Intersection: leapfrog.  Seek every scorer that is behind the largest
\* current document up to it, until all agree (or all are TERMINATED).
Align(subs) ==
  LET m == MaxOf({Doc(subs[i]) : i \in DOMAIN subs}) IN
  IF \A i \in DOMAIN subs : Doc(subs[i]) = m THEN subs
  ELSE Align([i \in DOMAIN subs |->
                IF Doc(subs[i]) < m THEN Seek(subs[i], m) ELSE subs[i]])

\* Exclude: while the positive scorer is on a document the excluding scorer
\* lands on exactly, move the positive scorer on.
ExcludeSettle(positive, excluding) ==
  LET d == Doc(positive) IN
  IF d = TERMINATED
  THEN [kind |-> "Exclude", positive |-> positive, excluding |-> excluding]
  ELSE LET e == IF Doc(excluding) < d THEN Seek(excluding, d) ELSE excluding IN
       IF Doc(e) = d THEN ExcludeSettle(Advance(positive), e)
       ELSE [kind |-> "Exclude", positive |-> positive, excluding |-> e]

\* DocSet::doc
Doc(s) ==
  CASE s.kind = "Empty" -> TERMINATED
    [] s.kind = "Sub" ->
         IF s.pos <= Len(s.docs) THEN s.docs[s.pos] ELSE TERMINATED
    [] s.kind = "Union" -> s.doc
    [] s.kind = "Intersect" -> Doc(s.subs[1])
    [] s.kind = "Exclude" -> Doc(s.positive)
    [] s.kind = "ReqOpt" -> Doc(s.req)

\* DocSet::advance
Advance(s) ==
  CASE s.kind = "Empty" -> s
    [] s.kind = "Sub" ->
         IF s.pos <= Len(s.docs) THEN [s EXCEPT !.pos = @ + 1] ELSE s
    [] s.kind = "Union" -> UnionFrom(s.subs, s.comb)
    [] s.kind = "Intersect" ->
         [s EXCEPT !.subs = Align([@ EXCEPT ![1] = Advance(@)])]
    [] s.kind = "Exclude" -> ExcludeSettle(Advance(s.positive), s.excluding)
    [] s.kind = "ReqOpt" -> [s EXCEPT !.req = Advance(@)]

SeekFromStart(s, target) ==
  CASE s.kind = "Empty" -> s
    [] s.kind = "Sub" ->
         LET cand == {i \in 1..Len(s.docs) : s.docs[i] >= target} IN
         [s EXCEPT !.pos = IF cand = {} THEN Len(s.docs) + 1 ELSE MinOf(cand)]
    [] s.kind = "Union" ->
         IF Doc(s) >= target THEN s
         ELSE UnionFrom([i \in DOMAIN s.subs |->
                           IF Doc(s.subs[i]) < target THEN Seek(s.subs[i], target)
                           ELSE s.subs[i]], s.comb)
    [] s.kind = "Intersect" ->
         [s EXCEPT !.subs = Align([@ EXCEPT ![1] = Seek(@, target)])]
    [] s.kind = "Exclude" ->
         ExcludeSettle(Seek(s.positive, target), s.excluding)
    [] s.kind = "ReqOpt" -> [s EXCEPT !.req = Seek(@, target)]

\* DocSet::seek: forward to the first document >= target.
Seek(s, target) ==
  IF Doc(s) >= target THEN s
  ELSE
  CASE s.kind = "Empty" -> s
    [] s.kind = "Sub" ->
         LET cand == {i \in s.pos..Len(s.docs) : s.docs[i] >= target} IN
         [s EXCEPT !.pos = IF cand = {} THEN Len(s.docs) + 1 ELSE MinOf(cand)]
    [] s.kind = "Union" ->
         UnionFrom([i \in DOMAIN s.subs |->
                      IF Doc(s.subs[i]) < target THEN Seek(s.subs[i], target)
                      ELSE s.subs[i]], s.comb)
    [] s.kind = "Intersect" ->
         [s EXCEPT !.subs = Align([@ EXCEPT ![1] = Seek(@, target)])]
    [] s.kind = "Exclude" ->
         ExcludeSettle(Seek(s.positive, target), s.excluding)
    [] s.kind = "ReqOpt" -> [s EXCEPT !.req = Seek(@, target)]

\* Scorer::score at the current document.
Score(s) ==
  CASE s.kind = "Empty" -> Zero
    [] s.kind = "Sub" ->
         IF s.pos <= Len(s.docs) THEN <<s.boost * (s.docs[s.pos] + 1), 1>>
         ELSE Zero
    [] s.kind = "Union" -> s.score
    [] s.kind = "Intersect" ->
         RSum([i \in DOMAIN s.subs |-> Score(s.subs[i])])
    [] s.kind = "Exclude" -> Score(s.positive)
    [] s.kind = "ReqOpt" ->
         LET d == Doc(s.req)
             o == Seek(s.opt, d) IN
         IF d # TERMINATED /\ Doc(o) = d
         THEN RAdd(Score(s.req), Score(o))
         ELSE Score(s.req)

\* intersect_scorers: one scorer is returned as it is, several are aligned
\* on their first common document.
IntersectScorers(subs) ==
  IF Len(subs) = 1 THEN subs[1]
  ELSE [kind |-> "Intersect", subs |-> Align(subs)]

RequiredOptionalScorer(req, opt) ==
  [kind |-> "ReqOpt", req |-> req, opt |-> opt]

Exclude(positive, excluding) == ExcludeSettle(positive, excluding)
\* ------------------------------------------------------- BooleanWeight
None == [tag |-> "None"]

Some(s) == [tag |-> "Some", scorer |-> s]

Ok(s) == [tag |-> "Ok", scorer |-> s]

Err == [tag |-> "Err"]

\* Weight::scorer of sub-weight i; the postings lookup of sub-weight f fails
\* (f = 0: none does).
SubWeightScorer(ws, i, b, f) ==
  IF f = i THEN Err ELSE Ok(SubScorer(ws[i].docs, b))

\* The clauses of one Occur, in clause order.
Bucket(ws, occur) ==
  SelectSeq([i \in DOMAIN ws |-> i], LAMBDA i : ws[i].occur = occur)

\* BooleanWeight::per_occur_scorers: every sub-weight's scorer, grouped by
\* Occur; the first failing construction is returned as the error.
PerOccurScorers(ws, b, f) ==
  IF \E i \in DOMAIN ws : SubWeightScorer(ws, i, b, f).tag = "Err"
  THEN [tag |-> "Err"]
  ELSE [tag |-> "Ok",
        map |-> [o \in Occurs |->
                   LET idx == Bucket(ws, o) IN
                   [k \in DOMAIN idx |->
                      SubWeightScorer(ws, idx[k], b, f).scorer]]]

\* scorer_union: one scorer is returned as it is, several become a Union.
ScorerUnion(scorers, comb) ==
  IF Len(scorers) = 1 THEN scorers[1] ELSE UnionFrom(scorers, comb)

\* per_occur_scorers.remove(&Occur::Should).map(scorer_union)
ShouldScorerOpt(map, comb) ==
  IF map["Should"] = <<>> THEN None ELSE Some(ScorerUnion(map["Should"], comb))

\* per_occur_scorers.remove(&Occur::MustNot).map(scorer_union)
ExcludeScorerOpt(map, comb) ==
  IF map["MustNot"] = <<>> THEN None
  ELSE Some(ScorerUnion(map["MustNot"], comb))

MustScorerOptUnion(map) ==
  IF map["Must"] = <<>> THEN None
  ELSE Some(ScorerUnion(map["Must"], "DoNothing"))

\* per_occur_scorers.remove(&Occur::Must).map(intersect_scorers)
MustScorerOpt(map) ==
  IF map["Must"] = <<>> THEN None ELSE Some(IntersectScorers(map["Must"]))

PositiveScorerShouldIgnored(should_opt, must_opt, se) ==
  CASE must_opt.tag = "Some" -> must_opt
    [] should_opt.tag = "Some" /\ must_opt.tag = "None" -> should_opt
    [] OTHER -> None

\* The match on (should_scorer_opt, must_scorer_opt); None stands for the
\* early return of an EmptyScorer.
PositiveScorer(should_opt, must_opt, se) ==
  CASE should_opt.tag = "Some" /\ must_opt.tag = "Some" ->
         IF se
         THEN Some(RequiredOptionalScorer(must_opt.scorer, should_opt.scorer))
         ELSE must_opt
    [] should_opt.tag = "None" /\ must_opt.tag = "Some" -> must_opt
    [] should_opt.tag = "Some" /\ must_opt.tag = "None" -> should_opt
    [] OTHER -> None

WithExcludeDropped(positive, exclude_opt) == positive

\* if let Some(exclude_scorer) = exclude_scorer_opt { Exclude::new(..) }
WithExclude(positive, exclude_opt) ==
  IF exclude_opt.tag = "Some" THEN Exclude(positive, exclude_opt.scorer)
  ELSE positive

ComplexScorerShouldRequired(ws, se, comb, b, f) ==
  LET per == PerOccurScorers(ws, b, f) IN
  IF per.tag = "Err" THEN Err
  ELSE LET should_opt == ShouldScorerOpt(per.map, comb)
           exclude_opt == ExcludeScorerOpt(per.map, comb)
           must_opt == MustScorerOpt(per.map)
           positive ==
             IF se /\ should_opt.tag = "Some" /\ must_opt.tag = "Some"
             THEN Some(RequiredOptionalScorer(should_opt.scorer,
                                              must_opt.scorer))
             ELSE PositiveScorer(should_opt, must_opt, se)
       IN IF positive.tag = "None" THEN Ok(EmptyScorer)
          ELSE Ok(WithExclude(positive.scorer, exclude_opt))

\* BooleanWeight::complex_scorer::<TScoreCombiner>
ComplexScorer(ws, se, comb, b, f) ==
  LET per == PerOccurScorers(ws, b, f) IN
  IF per.tag = "Err" THEN Err
  ELSE LET should_opt == ShouldScorerOpt(per.map, comb)
           exclude_opt == ExcludeScorerOpt(per.map, comb)
           must_opt == MustScorerOpt(per.map)
           positive == PositiveScorer(should_opt, must_opt, se)
       IN IF positive.tag = "None" THEN Ok(EmptyScorer)
          ELSE Ok(WithExclude(positive.scorer, exclude_opt))

SingleClauseAnyOccur(ws, b, f) == SubWeightScorer(ws, 1, b, f)

SingleClauseUnboosted(ws, b, f) ==
  IF ws[1].occur = "MustNot" THEN Ok(EmptyScorer)
  ELSE SubWeightScorer(ws, 1, 1, f)

\* BooleanWeight::scorer with exactly one clause.
SingleClauseScorer(ws, b, f) ==
  IF ws[1].occur = "MustNot" THEN Ok(EmptyScorer)
  ELSE SubWeightScorer(ws, 1, b, f)

BooleanWeightScorerEmptyIsErr(ws, se, b, f) ==
  IF Len(ws) = 0 THEN Err
  ELSE IF Len(ws) = 1 THEN SingleClauseScorer(ws, b, f)
  ELSE IF se THEN ComplexScorer(ws, se, "SumWithCoords", b, f)
  ELSE ComplexScorer(ws, se, "DoNothing", b, f)

\* BooleanWeight::scorer
BooleanWeightScorer(ws, se, b, f) ==
  IF Len(ws) = 0 THEN Ok(EmptyScorer)
  ELSE IF Len(ws) = 1 THEN SingleClauseScorer(ws, b, f)
  ELSE IF se THEN ComplexScorer(ws, se, "SumWithCoords", b, f)
  ELSE ComplexScorer(ws, se, "DoNothing", b, f)

\* The sub-weights whose scorer() a call of BooleanWeight::scorer runs.
Constructed(ws) ==
  IF Len(ws) = 1 /\ ws[1].occur = "MustNot" THEN {} ELSE DOMAIN ws

\* is_positive_occur
IsPositiveOccur(occur) == occur \in {"Must", "Should"}

\* Weight::explain of sub-weight i: Ok when the clause matches doc and its
\* lookup does not fail, an error otherwise.
SubWeightExplainOk(ws, i, doc, f) == f # i /\ doc \in ws[i].docs

BooleanWeightExplainEveryPositive(ws, se, doc, fs, fe) ==
  LET built == BooleanWeightScorer(ws, se, 1, fs) IN
  IF built.tag = "Err" THEN [tag |-> "DataErr"]
  ELSE LET scorer == Seek(built.scorer, doc) IN
       IF Doc(scorer) # doc THEN [tag |-> "DoesNotMatch", doc |-> doc]
       ELSE IF ~se
       THEN [tag |-> "Explanation", desc |-> "BooleanQuery with no scoring",
             value |-> <<1, 1>>, details |-> <<>>]
       ELSE [tag |-> "Explanation", desc |-> "BooleanClause. Sum of ...",
             value |-> Score(scorer),
             details |-> SelectSeq([i \in DOMAIN ws |-> i],
                           LAMBDA i : IsPositiveOccur(ws[i].occur))]

\* BooleanWeight::explain.  fs / fe: the sub-weight whose lookup fails while
\* the scorer is built / while the sub-weights explain (0: none).
BooleanWeightExplain(ws, se, doc, fs, fe) ==
  LET built == BooleanWeightScorer(ws, se, 1, fs) IN
  IF built.tag = "Err" THEN [tag |-> "DataErr"]
  ELSE LET scorer == Seek(built.scorer, doc) IN
       IF Doc(scorer) # doc THEN [tag |-> "DoesNotMatch", doc |-> doc]
       ELSE IF ~se
       THEN [tag |-> "Explanation", desc |-> "BooleanQuery with no scoring",
             value |-> <<1, 1>>, details |-> <<>>]
       ELSE [tag |-> "Explanation", desc |-> "BooleanClause. Sum of ...",
             value |-> Score(scorer),
             details |-> SelectSeq([i \in DOMAIN ws |-> i],
                           LAMBDA i : /\ IsPositiveOccur(ws[i].occur)
                                      /\ SubWeightExplainOk(ws, i, doc, fe))]

\* ------------------------------------------------- Spec: BooleanWeight
Clause == [occur : Occurs, docs : SUBSET Docs]

\* No scorer is being drained by a bulk helper.
ScorerIdle ==
  /\ host = [kind |-> "None"]
  /\ start = [kind |-> "None"]
  /\ helper = "none"
  /\ fpc = "idle"
  /\ threshold = 0
  /\ trace = <<>>

\* No PhraseWeight is in use.
PhraseIdle ==
  /\ segment = <<>>
  /\ deleted = {}
  /\ phrase_terms = <<>>

\* No consumer drives a scorer through advance() / seek() alone.
DocSetIdle ==
  /\ returned = <<>>
  /\ after_end = FALSE

\* No shared scorer handle is in use.
HandlesIdle ==
  /\ cells = <<>>
  /\ companion = <<>>
  /\ hpc = "none"
  /\ last_op = <<>>

\* BooleanWeight::new
Init ==
  /\ ScorerIdle
  /\ PhraseIdle
  /\ DocSetIdle
  /\ HandlesIdle
  /\ weights \in UNION {[1..n -> Clause] : n \in 0..MaxClauses}
  /\ scoring_enabled \in BOOLEAN
  /\ pc = "weight"
  /\ result = None
  /\ boost = 0
  /\ io_failed = FALSE
  /\ emitted = <<>>
  /\ explain_doc = 0
  /\ explanation = None

\* weight.scorer(reader, boost)
CallScorer ==
  /\ pc = "weight"
  /\ \E b \in Boosts, f \in 0..Len(weights) :
       /\ result' = BooleanWeightScorer(weights, scoring_enabled, b, f)
       /\ boost' = b
       /\ io_failed' = (f \in Constructed(weights))
  /\ pc' = "scorer"
  /\ UNCHANGED <<weights, scoring_enabled, emitted, explain_doc, explanation>>
  /\ UNCHANGED <<scorerVars, phraseVars, docsetVars, handleVars>>

\* A consumer reads (doc, score) off the scorer and advances it.
Collect ==
  /\ pc = "scorer"
  /\ result.tag = "Ok"
  /\ Doc(result.scorer) # TERMINATED
  /\ emitted' = Append(emitted, <<Doc(result.scorer), Score(result.scorer)>>)
  /\ result' = Ok(Advance(result.scorer))
  /\ UNCHANGED <<weights, scoring_enabled, pc, boost, io_failed, explain_doc,
                 explanation>>
  /\ UNCHANGED <<scorerVars, phraseVars, docsetVars, handleVars>>

\* weight.explain(reader, doc)
CallExplain ==
  /\ pc = "weight"
  /\ \/ \E f \in 1..Len(weights) :
          /\ explanation' = BooleanWeightExplain(weights, scoring_enabled, 0, f, 0)
          /\ explain_doc' = 0
          /\ io_failed' = (f \in Constructed(weights))
     \/ \E doc \in DocIds, f \in 0..Len(weights) :
          /\ explanation' = BooleanWeightExplain(weights, scoring_enabled, doc, 0, f)
          /\ explain_doc' = doc
          /\ io_failed' =
               (f # 0 /\ explanation'.tag = "Explanation" /\ scoring_enabled
                  /\ IsPositiveOccur(weights[f].occur))
  /\ pc' = "explained"
  /\ UNCHANGED <<weights, scoring_enabled, result, boost, emitted>>
  /\ UNCHANGED <<scorerVars, phraseVars, docsetVars, handleVars>>

Next == CallScorer \/ Collect \/ CallExplain

Spec == Init /\ [][Next]_vars
\* --------------------------------------- BooleanWeight: properties
HasOccur(ws, occur) == \E i \in DOMAIN ws : ws[i].occur = occur

\* The documents every Must clause matches.
MustSet(ws) ==
  {d \in Docs : \A i \in DOMAIN ws : ws[i].occur = "Must" => d \in ws[i].docs}

\* The documents some Should clause matches.
ShouldSet(ws) ==
  {d \in Docs : \E i \in DOMAIN ws : ws[i].occur = "Should" /\ d \in ws[i].docs}

\* The documents some MustNot clause matches.
MustNotSet(ws) ==
  {d \in Docs : \E i \in DOMAIN ws : ws[i].occur = "MustNot" /\ d \in ws[i].docs}

PositiveSet(ws) == IF HasOccur(ws, "Must") THEN MustSet(ws) ELSE ShouldSet(ws)

\* The documents the boolean query matches in the segment.
MatchSet(ws) ==
  IF HasOccur(ws, "Must") \/ HasOccur(ws, "Should")
  THEN PositiveSet(ws) \ MustNotSet(ws)
  ELSE {}

EmittedDocs == [i \in DOMAIN emitted |-> emitted[i][1]]

\* The scorer has emitted a prefix of `expected` and stands on the next
\* document of it, or on TERMINATED once all of it has been emitted.
Traverses(expected) ==
  /\ Len(emitted) <= Len(expected)
  /\ EmittedDocs = SubSeq(expected, 1, Len(emitted))
  /\ Doc(result.scorer) =
       IF Len(emitted) < Len(expected) THEN expected[Len(emitted) + 1]
       ELSE TERMINATED

Drained == pc = "scorer" /\ result.tag = "Ok" /\ Doc(result.scorer) = TERMINATED

\* Reading (doc, score) and advancing until TERMINATED.
RECURSIVE Drain(_)
Drain(s) ==
  IF Doc(s) = TERMINATED THEN <<>>
  ELSE <<(<<Doc(s), Score(s)>>)>> \o Drain(Advance(s))

\* C1: with at least two clauses and no MustNot clause, the scorer emits, in
\* strictly increasing order and without duplicates, exactly the
\* intersection of the Must clauses' documents when there is a Must clause,
\* and exactly the union of the Should clauses' documents otherwise.
C1_PositiveDocs ==
  (/\ pc = "scorer"
   /\ result.tag = "Ok"
   /\ Len(weights) >= 2
   /\ ~HasOccur(weights, "MustNot"))
  => Traverses(SortedSeq(PositiveSet(weights)))

\* A drained intersection of two Must clauses that differ, with a document
\* emitted.
C1_Witness ==
  /\ Drained
  /\ Len(weights) = 2
  /\ weights[1].occur = "Must" /\ weights[2].occur = "Must"
  /\ weights[1].docs # weights[2].docs
  /\ Len(emitted) = 1

\* C2: with at least two clauses, at least one MustNot and at least one
\* Must or Should, the scorer emits exactly the documents of the positive
\* part that no MustNot clause matches.
C2_ExcludedDocs ==
  (/\ pc = "scorer"
   /\ result.tag = "Ok"
   /\ Len(weights) >= 2
   /\ HasOccur(weights, "MustNot")
   /\ HasOccur(weights, "Must") \/ HasOccur(weights, "Should"))
  => Traverses(SortedSeq(PositiveSet(weights) \ MustNotSet(weights)))

\* A drained exclusion that dropped one positive document and kept another.
C2_Witness ==
  /\ Drained
  /\ HasOccur(weights, "MustNot")
  /\ Len(emitted) = 1
  /\ Cardinality(PositiveSet(weights)) = 2
  /\ Cardinality(MustNotSet(weights)) = 1

\* C3: with no Must and no Should clause but one or more MustNot clauses,
\* scorer() returns (when no postings lookup fails) an empty scorer, not an
\* error: TERMINATED from the start, whatever the MustNot clauses match.
C3_PureNegationEmpty ==
  (/\ pc = "scorer"
   /\ HasOccur(weights, "MustNot")
   /\ ~HasOccur(weights, "Must")
   /\ ~HasOccur(weights, "Should")
   /\ ~io_failed)
  => /\ result.tag = "Ok"
     /\ Doc(result.scorer) = TERMINATED
     /\ Drain(result.scorer) = <<>>
     /\ emitted = <<>>

\* scorer() has been called on one MustNot clause that matches documents.
C3_Witness ==
  /\ pc = "scorer"
  /\ Len(weights) = 1
  /\ weights[1].occur = "MustNot"
  /\ weights[1].docs = Docs
  /\ result.tag = "Ok"

\* scorer() has been called on several MustNot clauses that match documents.
C3_WitnessSeveral ==
  /\ pc = "scorer"
  /\ Len(weights) = 2
  /\ \A i \in DOMAIN weights : weights[i].occur = "MustNot" /\ weights[i].docs # {}
  /\ result.tag = "Ok"

\* C4: with zero clauses scorer() succeeds with an empty scorer, TERMINATED
\* from the start, for either value of scoring_enabled.
C4_NoClausesEmpty ==
  (pc = "scorer" /\ Len(weights) = 0)
  => /\ result.tag = "Ok"
     /\ Doc(result.scorer) = TERMINATED
     /\ Drain(result.scorer) = <<>>
     /\ emitted = <<>>

C4_Witness == pc = "scorer" /\ Len(weights) = 0 /\ scoring_enabled

\* C5: with exactly one clause, Must or Should, scorer(segment, boost) gives
\* the documents and scores of the sub-weight's own scorer(segment, boost).
C5_SingleClauseIsSubScorer ==
  (/\ pc = "scorer"
   /\ Len(weights) = 1
   /\ IsPositiveOccur(weights[1].occur))
  => /\ result.tag = "Err" <=> io_failed
     /\ result.tag = "Ok" =>
          emitted \o Drain(result.scorer)
            = Drain(SubScorer(weights[1].docs, boost))

\* One Should clause matching every document, read to the end with boost 2.
C5_Witness ==
  /\ Drained
  /\ Len(weights) = 1
  /\ weights[1].occur = "Should"
  /\ boost = 2
  /\ Len(emitted) = Cardinality(Docs)

\* C6: explain(segment, doc) returns the does-not-match error, never an
\* Explanation, for every DocId the boolean query does not match (a failed
\* postings lookup aside).
C6_ExplainNonMatching ==
  (/\ pc = "explained"
   /\ explain_doc \notin MatchSet(weights)
   /\ explanation.tag # "DataErr")
  => explanation.tag = "DoesNotMatch"

\* The same over the documents of the segment only.
C6_ExplainNonMatchingInSegment ==
  (/\ pc = "explained"
   /\ explain_doc \in Docs \ MatchSet(weights)
   /\ explanation.tag # "DataErr")
  => explanation.tag = "DoesNotMatch"

\* explain answers with an Explanation exactly on the matching documents
\* and on TERMINATED.
C6_ExplainLandsOn ==
  (pc = "explained" /\ explanation.tag # "DataErr")
  => (explanation.tag = "Explanation"
        <=> explain_doc \in MatchSet(weights) \cup {TERMINATED})
\* C13: data errors are never silently swallowed: whenever constructing the
\* scorer of a sub-weight, or explaining a Must/Should sub-weight, fails
\* with a data error, scorer() respectively explain() returns an error; and
\* scorer() returns an error only when a sub-weight's construction failed.
C13_DataErrorsSurface ==
  /\ pc = "scorer" => (result.tag = "Err" <=> io_failed)
  /\ (pc = "explained" /\ io_failed) => explanation.tag = "DataErr"

\* What the code does for scorer(): an error exactly when the construction
\* of a sub-weight's scorer failed.
C13_ScorerErrorIffLookupFailed ==
  pc = "scorer" => (result.tag = "Err" <=> io_failed)
\* The Must and Should clauses of the weight, in clause order.
PositiveClauses(ws) ==
  SelectSeq([i \in DOMAIN ws |-> i], LAMBDA i : IsPositiveOccur(ws[i].occur))

\* The Must and Should clauses that match doc.
PositiveClausesAt(ws, doc) ==
  {i \in DOMAIN ws : IsPositiveOccur(ws[i].occur) /\ doc \in ws[i].docs}

Itemized(e) == {e.details[k] : k \in DOMAIN e.details}

\* explain() answered with the fixed explanation of a weight without scoring.
FixedExplanation(e) ==
  /\ e.desc = "BooleanQuery with no scoring"
  /\ e.value = <<1, 1>>
  /\ e.details = <<>>

C21_WitnessBoth ==
  /\ pc = "explained"
  /\ scoring_enabled
  /\ Len(weights) = 2
  /\ weights[1].occur = "Should" /\ weights[2].occur = "Must"
  /\ explanation.tag = "Explanation"
  /\ explanation.details = <<1, 2>>

\* A matching document explained without scoring.
C21_WitnessNoScoring ==
  /\ pc = "explained"
  /\ ~scoring_enabled
  /\ Len(weights) = 2
  /\ explain_doc \in MatchSet(weights)
  /\ explanation.tag = "Explanation"
\* The documents a scorer emits when it is read to the end.
DrainDocs(s) == LET all == Drain(s) IN [i \in DOMAIN all |-> all[i][1]]

\* The scorer the same weight builds with the other value of
\* scoring_enabled, for the same boost.
OtherFlagScorer ==
  BooleanWeightScorer(weights, ~scoring_enabled, boost, 0)

\* C22: scoring_enabled never changes which documents match: the scorer a
\* BooleanWeight built emits, from start to end, the document sequence that
\* the scorer built from the same clauses with the other value of
\* scoring_enabled emits, and every seek lands both on the same document.
C22_ScoringFlagKeepsDocs ==
  (pc = "scorer" /\ result.tag = "Ok")
  => LET other == OtherFlagScorer IN
     /\ other.tag = "Ok"
     /\ EmittedDocs \o DrainDocs(result.scorer) = DrainDocs(other.scorer)
     /\ emitted = <<>> =>
          \A t \in DocIds :
            Doc(Seek(result.scorer, t)) = Doc(Seek(other.scorer, t))

\* A drained RequiredOptionalScorer (scoring enabled, a Must and a Should
\* clause) whose Should clause misses one of the two emitted documents; the
\* other flag uses the Must scorer alone.
C22_Witness ==
  /\ Drained
  /\ scoring_enabled
  /\ Len(weights) = 2
  /\ HasOccur(weights, "Must")
  /\ HasOccur(weights, "Should")
  /\ result.scorer.kind = "ReqOpt"
  /\ OtherFlagScorer.scorer.kind # "ReqOpt"
  /\ Len(emitted) = 2
  /\ Cardinality(ShouldSet(weights)) = 1

\* Two Should clauses read to the end without scoring; with scoring their
\* union also applies the coordination factor.
C22_WitnessUnion ==
  /\ Drained
  /\ ~scoring_enabled
  /\ Len(weights) = 2
  /\ \A i \in DOMAIN weights : weights[i].occur = "Should"
  /\ weights[1].docs # weights[2].docs
  /\ Len(emitted) = 2
\* a < b and a <= b on scores.
RLess(a, b) == a[1] * b[2] < b[1] * a[2]

RLeq(a, b) == a[1] * b[2] <= b[1] * a[2]

\* The score the Must side alone gives document d: the sum of the scores
\* of the Must clauses' own scorers there.
MustScoreAt(ws, b, d) ==
  RSum([k \in DOMAIN Bucket(ws, "Must") |-> <<b * (d + 1), 1>>])

\* C16: with scoring enabled and both Must and Should clauses, the score at
\* every emitted document is at least the score the Must side alone gives
\* it, and strictly greater exactly at the documents the Should side also
\* matches.
C16_ShouldOnlyRaisesScore ==
  (/\ pc = "scorer"
   /\ result.tag = "Ok"
   /\ scoring_enabled
   /\ HasOccur(weights, "Must")
   /\ HasOccur(weights, "Should"))
  => \A i \in DOMAIN emitted :
       LET d == emitted[i][1]
           must == MustScoreAt(weights, boost, d) IN
       /\ RLeq(must, emitted[i][2])
       /\ RLess(must, emitted[i][2]) <=> d \in ShouldSet(weights)

\* A drained Must + Should scorer with scoring: the first emitted document
\* is matched by the Should clause too, the second is not.
C16_Witness ==
  /\ Drained
  /\ scoring_enabled
  /\ HasOccur(weights, "Must")
  /\ HasOccur(weights, "Should")
  /\ Len(emitted) = 2
  /\ emitted[1][1] \in ShouldSet(weights)
  /\ emitted[2][1] \notin ShouldSet(weights)
\* --------------------------------------------- Scorer: the bulk helpers
\* The scorers the helpers run on:
\*   "Const"     ConstScorer, which keeps the trait's own two_phase()
\*   "Exact"     a scorer whose two_phase() is overridden and returns None
\*   "TwoPhase"  a scorer whose two_phase() returns a companion
HostKinds == {"Const", "Exact", "TwoPhase"}

\* A positioned scorer: sorted documents, a cursor, a score per document and
\* the documents its companion's matches() confirms.
HostScorers ==
  {h \in [kind : HostKinds,
          docs : {SortedSeq(S) : S \in SUBSET Docs},
          pos : 1..(MaxDocId + 2),
          scores : [Docs -> 1..MaxScore],
          verified : SUBSET Docs] :
     /\ h.pos <= Len(h.docs) + 1
     /\ h.verified \subseteq Range(h.docs)
     /\ h.kind # "TwoPhase" => h.verified = {}
     /\ \A d \in Docs \ Range(h.docs) : h.scores[d] = 1
     /\ h.kind = "Const" => \A d, e \in Range(h.docs) : h.scores[d] = h.scores[e]}

\* ConstScorer::doc
HostDoc(h) == IF h.pos <= Len(h.docs) THEN h.docs[h.pos] ELSE TERMINATED

\* ConstScorer::advance
HostAdvance(h) == IF h.pos <= Len(h.docs) THEN [h EXCEPT !.pos = @ + 1] ELSE h

\* ConstScorer::score
HostScore(h) == h.scores[HostDoc(h)]

\* Scorer::two_phase: the trait's own body is todo!(), which panics; an
\* overriding scorer answers None or Some(companion).
TwoPhase(h) ==
  CASE h.kind = "Const" -> "todo"
    [] h.kind = "Exact" -> "None"
    [] h.kind = "TwoPhase" -> "Some"

\* TwoPhase::matches on the companion: is the scorer's current document a
\* match.
Matches(h) == HostDoc(h) \in h.verified

\* The answer of matches() as logged in the trace: 1 for true, 0 for false.
MatchesBit(h) == IF Matches(h) THEN 1 ELSE 0

Event(op, doc, score) == <<op, doc, score>>

\* No BooleanWeight is in use.
BoolIdle ==
  /\ weights = <<>>
  /\ scoring_enabled = FALSE
  /\ pc = "none"
  /\ result = None
  /\ boost = 0
  /\ io_failed = FALSE
  /\ emitted = <<>>
  /\ explain_doc = 0
  /\ explanation = None

InitScorer ==
  /\ BoolIdle
  /\ PhraseIdle
  /\ DocSetIdle
  /\ HandlesIdle
  /\ host \in HostScorers
  /\ start = host
  /\ helper = "none"
  /\ fpc = "idle"
  /\ threshold = 0
  /\ trace = <<>>

\* scorer.for_each(callback), up to the loop: two_phase() is asked first.
ForEachEnter ==
  /\ fpc = "idle"
  /\ helper' = "for_each"
  /\ fpc' = CASE TwoPhase(host) = "Some" -> "two_phase Some"
              [] TwoPhase(host) = "None" -> "two_phase None"
              [] OTHER -> "panicked"
  /\ UNCHANGED <<host, start, threshold, trace>>
  /\ UNCHANGED <<boolVars, phraseVars, docsetVars, handleVars>>

ForEachTwoPhaseStepScoreFirst ==
  /\ fpc = "two_phase Some"
  /\ IF HostDoc(host) # TERMINATED
     THEN /\ trace' = trace
                \o <<Event("score", HostDoc(host), HostScore(host)),
                     Event("matches", HostDoc(host), MatchesBit(host))>>
                \o (IF Matches(host)
                    THEN <<Event("callback", HostDoc(host), HostScore(host))>>
                    ELSE <<>>)
                \o <<Event("advance", HostDoc(HostAdvance(host)), 0)>>
          /\ host' = HostAdvance(host)
          /\ fpc' = fpc
     ELSE /\ fpc' = "returned"
          /\ UNCHANGED <<host, trace>>
  /\ UNCHANGED <<start, helper, threshold>>
  /\ UNCHANGED <<boolVars, phraseVars, docsetVars, handleVars>>

\* One turn of the loop of for_each when two_phase() is Some.
ForEachTwoPhaseStep ==
  /\ fpc = "two_phase Some"
  /\ IF HostDoc(host) # TERMINATED
     THEN /\ trace' = trace
                \o <<Event("matches", HostDoc(host), MatchesBit(host))>>
                \o (IF Matches(host)
                    THEN <<Event("score", HostDoc(host), HostScore(host)),
                           Event("callback", HostDoc(host), HostScore(host))>>
                    ELSE <<>>)
                \o <<Event("advance", HostDoc(HostAdvance(host)), 0)>>
          /\ host' = HostAdvance(host)
          /\ fpc' = fpc
     ELSE /\ fpc' = "returned"
          /\ UNCHANGED <<host, trace>>
  /\ UNCHANGED <<start, helper, threshold>>
  /\ UNCHANGED <<boolVars, phraseVars, docsetVars, handleVars>>

ForEachExactStepAdvanceFirst ==
  /\ fpc = "two_phase None"
  /\ host' = HostAdvance(host)
  /\ IF HostDoc(host') # TERMINATED
     THEN /\ trace' = trace
                \o <<Event("advance", HostDoc(host'), 0),
                     Event("score", HostDoc(host'), HostScore(host')),
                     Event("callback", HostDoc(host'), HostScore(host'))>>
          /\ fpc' = fpc
     ELSE /\ trace' = trace \o <<Event("advance", TERMINATED, 0)>>
          /\ fpc' = "panicked"
  /\ UNCHANGED <<start, helper, threshold>>
  /\ UNCHANGED <<boolVars, phraseVars, docsetVars, handleVars>>

\* One turn of the loop of for_each when two_phase() is None; the todo!()
\* after the loop panics.
ForEachExactStep ==
  /\ fpc = "two_phase None"
  /\ IF HostDoc(host) # TERMINATED
     THEN /\ trace' = trace
                \o <<Event("score", HostDoc(host), HostScore(host)),
                     Event("callback", HostDoc(host), HostScore(host)),
                     Event("advance", HostDoc(HostAdvance(host)), 0)>>
          /\ host' = HostAdvance(host)
          /\ fpc' = fpc
     ELSE /\ fpc' = "panicked"
          /\ UNCHANGED <<host, trace>>
  /\ UNCHANGED <<start, helper, threshold>>
  /\ UNCHANGED <<boolVars, phraseVars, docsetVars, handleVars>>

\* scorer.for_each_pruning(threshold, callback), up to the loop.
PruningEnter ==
  /\ fpc = "idle"
  /\ helper' = "for_each_pruning"
  /\ fpc' = "pruning"
  /\ threshold' \in 0..MaxScore
  /\ UNCHANGED <<host, start, trace>>
  /\ UNCHANGED <<boolVars, phraseVars, docsetVars, handleVars>>

PruningStepAtThreshold ==
  /\ fpc = "pruning"
  /\ IF HostDoc(host) # TERMINATED
     THEN /\ IF HostScore(host) >= threshold
             THEN /\ threshold' \in 0..MaxScore
                  /\ trace' = trace
                       \o <<Event("score", HostDoc(host), HostScore(host)),
                            Event("callback", HostDoc(host), HostScore(host)),
                            Event("advance", HostDoc(HostAdvance(host)), 0)>>
             ELSE /\ threshold' = threshold
                  /\ trace' = trace
                       \o <<Event("score", HostDoc(host), HostScore(host)),
                            Event("advance", HostDoc(HostAdvance(host)), 0)>>
          /\ host' = HostAdvance(host)
          /\ fpc' = fpc
     ELSE /\ fpc' = "panicked"
          /\ UNCHANGED <<host, trace, threshold>>
  /\ UNCHANGED <<start, helper>>
  /\ UNCHANGED <<boolVars, phraseVars, docsetVars, handleVars>>

\* One turn of the loop of for_each_pruning; the callback returns the next
\* threshold.  The todo!() after the loop panics.
PruningStep ==
  /\ fpc = "pruning"
  /\ IF HostDoc(host) # TERMINATED
     THEN /\ IF HostScore(host) > threshold
             THEN /\ threshold' \in 0..MaxScore
                  /\ trace' = trace
                       \o <<Event("score", HostDoc(host), HostScore(host)),
                            Event("callback", HostDoc(host), HostScore(host)),
                            Event("advance", HostDoc(HostAdvance(host)), 0)>>
             ELSE /\ threshold' = threshold
                  /\ trace' = trace
                       \o <<Event("score", HostDoc(host), HostScore(host)),
                            Event("advance", HostDoc(HostAdvance(host)), 0)>>
          /\ host' = HostAdvance(host)
          /\ fpc' = fpc
     ELSE /\ fpc' = "panicked"
          /\ UNCHANGED <<host, trace, threshold>>
  /\ UNCHANGED <<start, helper>>
  /\ UNCHANGED <<boolVars, phraseVars, docsetVars, handleVars>>

NextScorer ==
  \/ ForEachEnter
  \/ ForEachTwoPhaseStep
  \/ ForEachExactStep
  \/ PruningEnter
  \/ PruningStep

SpecScorer == InitScorer /\ [][NextScorer]_vars

\* --------------------------------------------- Scorer: properties
\* The (doc, score) pairs the callback has been invoked with, in order.
Callbacks ==
  LET cb == SelectSeq(trace, LAMBDA e : e[1] = "callback") IN
  [i \in DOMAIN cb |-> <<cb[i][2], cb[i][3]>>]

\* Manually alternating advance / matches / score from scorer h on: every
\* remaining position that passes the companion's check, or every remaining
\* position when the scorer has no companion.
RECURSIVE ManualDrain(_)
ManualDrain(h) ==
  IF HostDoc(h) = TERMINATED THEN <<>>
  ELSE (IF h.kind = "TwoPhase" => Matches(h)
        THEN <<(<<HostDoc(h), HostScore(h)>>)>> ELSE <<>>)
       \o ManualDrain(HostAdvance(h))

Finished == fpc \in {"returned", "panicked"}

IsPrefix(p, q) == Len(p) <= Len(q) /\ p = SubSeq(q, 1, Len(p))

\* C8: for_each invokes callback(doc, score) exactly once, in increasing doc
\* order, for every remaining position that passes the two-phase check (for
\* every remaining position when the scorer has no companion): the same
\* sequence as manually alternating advance / matches / score.
C8_ForEachIsManualDrain ==
  helper = "for_each"
  => /\ IsPrefix(Callbacks, ManualDrain(start))
     /\ Finished => Callbacks = ManualDrain(start)

\* The same for the scorers whose two_phase() is overridden.
C8_ForEachOverridden ==
  (helper = "for_each" /\ start.kind # "Const")
  => /\ IsPrefix(Callbacks, ManualDrain(start))
     /\ Finished => Callbacks = ManualDrain(start)

\* C9: for_each_pruning never invokes the callback at a position where the
\* companion's matches() is false: its documents are among those for_each
\* reports.
C9_PruningHonorsTwoPhase ==
  helper = "for_each_pruning"
  => \A i \in DOMAIN Callbacks :
       \E j \in DOMAIN ManualDrain(start) :
         ManualDrain(start)[j][1] = Callbacks[i][1]

\* Without a companion for_each_pruning reports only remaining positions.
C9_PruningWithoutCompanion ==
  (helper = "for_each_pruning" /\ start.kind # "TwoPhase")
  => \A i \in DOMAIN Callbacks :
       \E j \in DOMAIN ManualDrain(start) :
         ManualDrain(start)[j][1] = Callbacks[i][1]

\* C10: no Scorer operation reaches an unimplemented or aborting path:
\* two_phase() without a companion returns None, and for_each and
\* for_each_pruning return once the scorer is TERMINATED.
C10_NoUnimplementedPath == fpc # "panicked"

\* The one helper call that does return: for_each with a companion.
C10_OnlyTwoPhaseForEachReturns ==
  /\ fpc = "returned" => helper = "for_each" /\ start.kind = "TwoPhase"
  /\ (Finished /\ ~(helper = "for_each" /\ start.kind = "TwoPhase"))
       => fpc = "panicked"
\* The scorer the helper was called on is as its construction left it.
Fresh == start.pos = 1

\* The document an advance() call of the helper returned, for the advance
\* events of the trace in order.
Advances ==
  LET adv == SelectSeq(trace, LAMBDA e : e[1] = "advance") IN
  [i \in DOMAIN adv |-> adv[i][2]]

\* The documents of scorer h from the n-th on, then TERMINATED.
DocFrom(h, n) == IF n <= Len(h.docs) THEN h.docs[n] ELSE TERMINATED

MatchesCalls ==
  LET m == SelectSeq(trace, LAMBDA e : e[1] = "matches") IN
  [i \in DOMAIN m |-> m[i][2]]

\* The documents of scorer h from its current position on.
Remaining(h) == SubSeq(h.docs, h.pos, Len(h.docs))

\* C19: in for_each on a scorer with a companion, matches() is called
\* exactly once for each position the scorer lands on and never on
\* TERMINATED, and score() is called at a position only after matches()
\* returned true for that position and before the next advance().
C19_MatchesOncePerPosition ==
  (helper = "for_each" /\ start.kind = "TwoPhase")
  => /\ IsPrefix(MatchesCalls, Remaining(start))
     /\ fpc = "two_phase Some"
          => Len(MatchesCalls) = host.pos - start.pos
     /\ fpc = "returned" => MatchesCalls = Remaining(start)
     /\ \A i \in DOMAIN trace :
          /\ trace[i][1] = "matches" => trace[i][2] # TERMINATED
          /\ trace[i][1] = "score"
               => /\ i > 1
                  /\ trace[i - 1] = Event("matches", trace[i][2], 1)
          /\ (trace[i][1] = "advance" /\ trace[i][2] # TERMINATED /\ i < Len(trace))
               => trace[i + 1] = Event("matches", trace[i][2],
                                       trace[i + 1][3])

\* for_each has returned on a scorer with a companion that verified one of
\* its two documents and rejected the other.
C19_Witness ==
  /\ helper = "for_each"
  /\ start.kind = "TwoPhase"
  /\ fpc = "returned"
  /\ Len(MatchesCalls) = 2
  /\ Len(Callbacks) = 1
\* C20: for_each_pruning invokes the callback at a position exactly when
\* the score there is strictly greater than the threshold in force (the
\* initial argument, then the value the most recent callback returned); a
\* position whose score is <= the threshold in force is skipped without a
\* callback and without a change of the threshold.
C20_PruningThreshold ==
  [][(helper = "for_each_pruning" /\ fpc = "pruning"
        /\ HostDoc(host) # TERMINATED)
       => /\ host' = HostAdvance(host)
          /\ HostScore(host) > threshold
               => Callbacks' = Append(Callbacks, <<HostDoc(host), HostScore(host)>>)
          /\ HostScore(host) <= threshold
               => /\ Callbacks' = Callbacks
                  /\ threshold' = threshold]_vars

\* for_each_pruning has gone through two documents: the first was reported
\* and its callback raised the threshold, the second was skipped.
C20_Witness ==
  /\ helper = "for_each_pruning"
  /\ Len(Remaining(start)) = 2
  /\ HostDoc(host) = TERMINATED
  /\ Len(Callbacks) = 1
  /\ Callbacks[1][1] = Remaining(start)[1]
  /\ HostScore(start) < threshold
\* -------------------------------------------------------- PhraseWeight
Terms == {"a", "b"}

\* The token sequences a document can hold.
Texts == UNION {[1..n -> Terms] : n \in 0..MaxDocLen}

\* The positions (from 0) of term in the document doc of the segment.
Positions(seg, doc, term) ==
  {i - 1 : i \in {j \in DOMAIN seg[doc + 1] : seg[doc + 1][j] = term}}

\* The documents of the segment holding term, deleted ones included.
DocsWith(seg, term) ==
  {d \in 0..(Len(seg) - 1) : Positions(seg, d, term) # {}}

\* InvertedIndexReader::read_postings: None when the segment has no postings
\* for the term, else its documents without the deleted ones.
ReadPostings(seg, del, term) ==
  IF DocsWith(seg, term) = {} THEN None
  ELSE [tag |-> "Some", docs |-> DocsWith(seg, term) \ del, term |-> term]

\* InvertedIndexReader::read_postings_no_deletes
ReadPostingsNoDeletes(seg, term) ==
  IF DocsWith(seg, term) = {} THEN None
  ELSE [tag |-> "Some", docs |-> DocsWith(seg, term), term |-> term]

\* PhraseScorer::new: the approximation is the intersection of the terms'
\* documents; the cursor stands on its first document.
PhraseScorerNew(term_postings_list) ==
  [kind |-> "Phrase",
   terms |-> term_postings_list,
   approximation |->
     IF Len(term_postings_list) = 1
     THEN SubScorer(term_postings_list[1][2].docs, 1)
     ELSE IntersectScorers([i \in DOMAIN term_postings_list |->
                              SubScorer(term_postings_list[i][2].docs, 1)])]

PhraseScorerOptOffsetsDropped(seg, del, terms) ==
  LET postings == [i \in DOMAIN terms |->
                     IF del # {} THEN ReadPostings(seg, del, terms[i][2])
                     ELSE ReadPostingsNoDeletes(seg, terms[i][2])] IN
  IF \E i \in DOMAIN terms : postings[i].tag = "None" THEN None
  ELSE Some(PhraseScorerNew([i \in DOMAIN terms |-> <<0, postings[i]>>]))

\* PhraseWeight::phrase_scorer: None as soon as a term has no postings.
PhraseScorerOpt(seg, del, terms) ==
  LET postings == [i \in DOMAIN terms |->
                     IF del # {} THEN ReadPostings(seg, del, terms[i][2])
                     ELSE ReadPostingsNoDeletes(seg, terms[i][2])] IN
  IF \E i \in DOMAIN terms : postings[i].tag = "None" THEN None
  ELSE Some(PhraseScorerNew([i \in DOMAIN terms |-> <<terms[i][1], postings[i]>>]))

\* PhraseScorer as a DocSet: doc / advance / seek move the approximation.
PhraseDoc(p) == Doc(p.approximation)

PhraseAdvance(p) == [p EXCEPT !.approximation = Advance(@)]

PhraseSeek(p, target) == [p EXCEPT !.approximation = Seek(@, target)]

\* The position list of a term at document doc, aligned: each raw position
\* minus the term's offset.
AlignedPositions(seg, doc, offset, term) ==
  {pos - offset : pos \in Positions(seg, doc, term)}

\* The position values common to the aligned lists of all the terms.
CommonPositions(seg, terms, doc) ==
  {pos \in AlignedPositions(seg, doc, terms[1][1], terms[1][2]) :
     \A i \in DOMAIN terms :
       pos \in AlignedPositions(seg, doc, terms[i][1], terms[i][2])}

\* The (offset, term) pairs the scorer was built with.
PhraseScorerTerms(p) ==
  [i \in DOMAIN p.terms |-> <<p.terms[i][1], p.terms[i][2].term>>]

\* PhraseScorer::phrase_count at document doc: the number of positions
\* common to the terms' aligned position lists.
PhraseCountAt(seg, terms, doc) == Cardinality(CommonPositions(seg, terms, doc))

\* PhraseScorer::phrase_count at the scorer's current document.
PhraseCount(seg, p) == PhraseCountAt(seg, PhraseScorerTerms(p), PhraseDoc(p))

\* The companion's matches() at the scorer's current document: some
\* position value is common to the aligned lists.
PhraseMatches(seg, p) ==
  CommonPositions(seg, PhraseScorerTerms(p), PhraseDoc(p)) # {}

PhraseWeightScorerNoneIsErr(seg, del, terms) ==
  LET opt == PhraseScorerOpt(seg, del, terms) IN
  IF opt.tag = "Some" THEN Ok(opt.scorer) ELSE Err

\* PhraseWeight::scorer
PhraseWeightScorer(seg, del, terms) ==
  LET opt == PhraseScorerOpt(seg, del, terms) IN
  IF opt.tag = "Some" THEN Ok(opt.scorer) ELSE Ok(EmptyScorer)

\* PhraseWeight::explain
PhraseWeightExplain(seg, del, terms, doc) ==
  LET scorer_opt == PhraseScorerOpt(seg, del, terms) IN
  IF scorer_opt.tag = "None" THEN [tag |-> "DoesNotMatch", doc |-> doc]
  ELSE LET scorer == PhraseSeek(scorer_opt.scorer, doc) IN
       IF PhraseDoc(scorer) # doc THEN [tag |-> "DoesNotMatch", doc |-> doc]
       ELSE [tag |-> "Explanation", desc |-> "Phrase Scorer",
             value |-> <<PhraseCount(seg, scorer), 1>>,
             details |-> <<(<<doc, PhraseCount(seg, scorer)>>)>>]

\* -------------------------------------------- SpecPhrase: PhraseWeight
\* PhraseQuery::new gives the terms the offsets 0, 1, ...
Phrases == {<<(<<0, t>>), (<<1, u>>)>> : t \in Terms, u \in Terms}

InitPhrase ==
  /\ ScorerIdle
  /\ DocSetIdle
  /\ HandlesIdle
  /\ weights = <<>>
  /\ scoring_enabled = FALSE
  /\ pc = "weight"
  /\ result = None
  /\ boost = 0
  /\ io_failed = FALSE
  /\ emitted = <<>>
  /\ explain_doc = 0
  /\ explanation = None
  /\ segment \in [1..(MaxDocId + 1) -> Texts]
  /\ deleted \in {del \in SUBSET Docs : Cardinality(del) <= 1}
  /\ phrase_terms \in Phrases

\* phrase_weight.scorer(reader, boost)
PhraseCallScorer ==
  /\ pc = "weight"
  /\ result' = PhraseWeightScorer(segment, deleted, phrase_terms)
  /\ boost' = 1
  /\ pc' = "scorer"
  /\ UNCHANGED <<weights, scoring_enabled, io_failed, emitted, explain_doc,
                 explanation>>
  /\ UNCHANGED <<scorerVars, phraseVars, docsetVars, handleVars>>

\* A consumer reads doc, matches() and phrase_count() and advances.
PhraseCollect ==
  /\ pc = "scorer"
  /\ result.scorer.kind = "Phrase"
  /\ PhraseDoc(result.scorer) # TERMINATED
  /\ emitted' = Append(emitted,
                  <<PhraseDoc(result.scorer),
                    PhraseMatches(segment, result.scorer),
                    PhraseCount(segment, result.scorer)>>)
  /\ result' = Ok(PhraseAdvance(result.scorer))
  /\ UNCHANGED <<weights, scoring_enabled, pc, boost, io_failed, explain_doc,
                 explanation>>
  /\ UNCHANGED <<scorerVars, phraseVars, docsetVars, handleVars>>

\* phrase_weight.explain(reader, doc), for a document of the segment.
PhraseCallExplain ==
  /\ pc = "weight"
  /\ \E doc \in Docs :
       /\ explanation' = PhraseWeightExplain(segment, deleted, phrase_terms, doc)
       /\ explain_doc' = doc
  /\ pc' = "explained"
  /\ UNCHANGED <<weights, scoring_enabled, result, boost, io_failed, emitted>>
  /\ UNCHANGED <<scorerVars, phraseVars, docsetVars, handleVars>>

NextPhrase == PhraseCallScorer \/ PhraseCollect \/ PhraseCallExplain

SpecPhrase == InitPhrase /\ [][NextPhrase]_vars

\* --------------------------------------- PhraseWeight: properties
\* The phrase occurs in document doc: at some position every term stands at
\* its offset.
PhraseOccurs(seg, terms, doc) ==
  \E pos \in 0..MaxDocLen :
    \A i \in DOMAIN terms :
      /\ pos + terms[i][1] + 1 \in DOMAIN seg[doc + 1]
      /\ seg[doc + 1][pos + terms[i][1] + 1] = terms[i][2]

HasAllTerms(seg, terms, doc) ==
  \A i \in DOMAIN terms : \E j \in DOMAIN seg[doc + 1] : seg[doc + 1][j] = terms[i][2]

\* C7: explain(segment, doc) returns the does-not-match error for every
\* document in which the phrase does not occur, and an Explanation only for
\* documents where it occurs.
C7_PhraseExplainNonMatching ==
  pc = "explained"
  => (explanation.tag = "Explanation"
        => PhraseOccurs(segment, phrase_terms, explain_doc))

\* The cases of C7 the code does get right: a term without postings in the
\* segment, and a document that lacks a term.
C7_PhraseExplainMissingTerm ==
  (/\ pc = "explained"
   /\ \/ \E i \in DOMAIN phrase_terms : DocsWith(segment, phrase_terms[i][2]) = {}
      \/ ~HasAllTerms(segment, phrase_terms, explain_doc))
  => explanation.tag = "DoesNotMatch"

\* What explain does: an Explanation exactly for the live documents that
\* hold every term of the phrase, at whatever positions.
C7_PhraseExplainApproximation ==
  pc = "explained"
  => (explanation.tag = "Explanation"
        <=> /\ HasAllTerms(segment, phrase_terms, explain_doc)
            /\ explain_doc \notin deleted)

\* The number of positions of document doc at which the whole phrase
\* stands: every term at the position plus its offset.
OccurrenceCount(seg, terms, doc) ==
  Cardinality({pos \in 0..Len(seg[doc + 1]) :
                 \A i \in DOMAIN terms :
                   /\ pos + terms[i][1] + 1 \in DOMAIN seg[doc + 1]
                   /\ seg[doc + 1][pos + terms[i][1] + 1] = terms[i][2]})

\* The live documents of the segment that hold every term of the phrase.
CandidateDocs(seg, del, terms) ==
  {d \in (0..(Len(seg) - 1)) \ del : HasAllTerms(seg, terms, d)}

\* Reading doc, matches() and phrase_count() and advancing until TERMINATED.
RECURSIVE PhraseDrain(_, _)
PhraseDrain(seg, p) ==
  IF PhraseDoc(p) = TERMINATED THEN <<>>
  ELSE <<(<<PhraseDoc(p), PhraseMatches(seg, p), PhraseCount(seg, p)>>)>>
       \o PhraseDrain(seg, PhraseAdvance(p))

\* The index of test_phrase_count: "a c", "a a b d a b c", " a b".
ExampleSegment ==
  << <<"a", "c">>, <<"a", "a", "b", "d", "a", "b", "c">>, <<"a", "b">> >>

\* PhraseQuery::new(vec![a, b])
ExamplePhrase == <<(<<0, "a">>), (<<1, "b">>)>>

\* What a consumer reads off the phrase scorer of test_phrase_count.
ExampleTraversal ==
  PhraseDrain(ExampleSegment,
              PhraseWeightScorer(ExampleSegment, {}, ExamplePhrase).scorer)

\* C11: at every candidate document d matches() is true exactly when
\* phrase_count(d) > 0, phrase_count(d) being the number of positions p with
\* every term i at p + offset_i in d; the traversal visits exactly the
\* (live) documents holding all the terms, in increasing order, then
\* TERMINATED; on the index of test_phrase_count the phrase [a, b] visits
\* document 1 with count 2 and document 2 with count 1, never document 0.
C11_PhraseCount ==
  /\ ExampleTraversal = <<(<<1, TRUE, 2>>), (<<2, TRUE, 1>>)>>
  /\ (pc = "scorer" /\ result.scorer.kind = "Phrase")
       => /\ \A i \in DOMAIN emitted :
               LET n == OccurrenceCount(segment, phrase_terms, emitted[i][1]) IN
               /\ emitted[i][2] = (n > 0)
               /\ emitted[i][3] = n
          /\ LET expected == SortedSeq(CandidateDocs(segment, deleted, phrase_terms)) IN
             /\ Len(emitted) <= Len(expected)
             /\ EmittedDocs = SubSeq(expected, 1, Len(emitted))
             /\ PhraseDoc(result.scorer) =
                  IF Len(emitted) < Len(expected) THEN expected[Len(emitted) + 1]
                  ELSE TERMINATED

\* A drained phrase scorer that visited a document holding the terms in the
\* wrong order (matches() false, count 0) and then one holding the phrase.
C11_Witness ==
  /\ pc = "scorer"
  /\ result.scorer.kind = "Phrase"
  /\ PhraseDoc(result.scorer) = TERMINATED
  /\ Len(emitted) = 2
  /\ emitted[1] = <<0, FALSE, 0>>
  /\ emitted[2] = <<1, TRUE, 1>>

\* Some term of the phrase has no postings in the segment.
SomeTermWithoutPostings(seg, terms) ==
  \E i \in DOMAIN terms : DocsWith(seg, terms[i][2]) = {}

\* C12: scorer() returns Ok with an empty scorer (no document, TERMINATED
\* from the start), never an error, whenever a phrase term has no postings
\* in the segment, whichever term it is and whether or not the segment has
\* deletes.
C12_MissingTermEmptyScorer ==
  (pc = "scorer" /\ SomeTermWithoutPostings(segment, phrase_terms))
  => /\ result.tag = "Ok"
     /\ result.scorer = EmptyScorer
     /\ Doc(result.scorer) = TERMINATED
     /\ Advance(result.scorer) = result.scorer
     /\ emitted = <<>>

\* scorer() has been called on a segment with deletes where the first term
\* of the phrase has postings and the second has none.
C12_Witness ==
  /\ pc = "scorer"
  /\ deleted # {}
  /\ DocsWith(segment, phrase_terms[1][2]) \ deleted # {}
  /\ DocsWith(segment, phrase_terms[2][2]) = {}

\* The same without deletes and with the first term the missing one.
C12_WitnessFirstTerm ==
  /\ pc = "scorer"
  /\ deleted = {}
  /\ DocsWith(segment, phrase_terms[1][2]) = {}
  /\ DocsWith(segment, phrase_terms[2][2]) # {}

\* ----------------------------------------- SpecDocSet: advance / seek
\* doc / advance / seek of a scorer returned by BooleanWeight::scorer or
\* PhraseWeight::scorer.
AnyDoc(s) == IF s.kind = "Phrase" THEN PhraseDoc(s) ELSE Doc(s)

AnyAdvance(s) == IF s.kind = "Phrase" THEN PhraseAdvance(s) ELSE Advance(s)

AnySeek(s, target) ==
  IF s.kind = "Phrase" THEN PhraseSeek(s, target) ELSE Seek(s, target)

\* weight.scorer(reader, 1.0) has returned a scorer, for a BooleanWeight or
\* for a PhraseWeight.
InitDocSet ==
  /\ ScorerIdle
  /\ HandlesIdle
  /\ DocSetIdle
  /\ \/ /\ PhraseIdle
        /\ weights \in UNION {[1..n -> Clause] : n \in 0..MaxClauses}
        /\ scoring_enabled \in BOOLEAN
        /\ result = BooleanWeightScorer(weights, scoring_enabled, 1, 0)
     \/ /\ weights = <<>>
        /\ scoring_enabled = FALSE
        /\ segment \in [1..(MaxDocId + 1) -> Texts]
        /\ deleted \in {del \in SUBSET Docs : Cardinality(del) <= 1}
        /\ phrase_terms \in Phrases
        /\ result = PhraseWeightScorer(segment, deleted, phrase_terms)
  /\ pc = "docset"
  /\ boost = 1
  /\ io_failed = FALSE
  /\ emitted = <<>>
  /\ explain_doc = 0
  /\ explanation = None

\* scorer.advance()
CallAdvance ==
  /\ pc = "docset"
  /\ result' = Ok(AnyAdvance(result.scorer))
  /\ returned' = <<AnyDoc(result'.scorer)>>
  /\ after_end' = (after_end \/ returned = <<TERMINATED>>)
  /\ UNCHANGED <<weights, scoring_enabled, pc, boost, io_failed, emitted,
                 explain_doc, explanation>>
  /\ UNCHANGED <<scorerVars, phraseVars, handleVars>>

\* scorer.seek(target): target is not behind the current document while
\* the scorer is on one, and is any DocId once it is exhausted.
CallSeek ==
  /\ pc = "docset"
  /\ \E target \in DocIds :
       /\ AnyDoc(result.scorer) = TERMINATED \/ target >= AnyDoc(result.scorer)
       /\ result' = Ok(AnySeek(result.scorer, target))
  /\ returned' = <<AnyDoc(result'.scorer)>>
  /\ after_end' = (after_end \/ returned = <<TERMINATED>>)
  /\ UNCHANGED <<weights, scoring_enabled, pc, boost, io_failed, emitted,
                 explain_doc, explanation>>
  /\ UNCHANGED <<scorerVars, phraseVars, handleVars>>

NextDocSet == CallAdvance \/ CallSeek

SpecDocSet == InitDocSet /\ [][NextDocSet]_vars

\* ----------------------------------------- SpecDocSet: properties
\* C14: TERMINATED is absorbing for every scorer built by
\* BooleanWeight::scorer or PhraseWeight::scorer, the empty scorer included:
\* once advance() or seek() has returned TERMINATED, every later advance()
\* and seek(t) returns TERMINATED and doc() returns TERMINATED.
C14_TerminatedAbsorbing ==
  pc = "docset"
  => /\ after_end => returned = <<TERMINATED>>
     /\ returned = <<TERMINATED>>
          => /\ AnyDoc(result.scorer) = TERMINATED
             /\ AnyDoc(AnyAdvance(result.scorer)) = TERMINATED
             /\ \A t \in DocIds : AnyDoc(AnySeek(result.scorer, t)) = TERMINATED

\* The scorer of two clauses that match a document: it returned TERMINATED
\* and was called again.
C14_Witness ==
  /\ pc = "docset"
  /\ after_end
  /\ Len(weights) = 2
  /\ MatchSet(weights) # {}

\* The empty scorer, called again after it returned TERMINATED.
C14_WitnessEmpty ==
  /\ pc = "docset"
  /\ after_end
  /\ result.scorer = EmptyScorer

\* A phrase scorer with candidate documents, called again after it returned
\* TERMINATED.
C14_WitnessPhrase ==
  /\ pc = "docset"
  /\ after_end
  /\ result.scorer.kind = "Phrase"
  /\ CandidateDocs(segment, deleted, phrase_terms) # {}

\* ------------------------------------- SpecHandles: shared scorer cells
\* A shared cell Rc<RefCell<scorer>>: the scorer and the state of the
\* RefCell's runtime borrow flag ("none", or "mut" while a mutable borrow is
\* live; shared borrows end within the call that takes them).
\* The scorer handle (RcRefCellScorer) refers to cell 1.

\* The scorers put behind a handle: those that override two_phase().
HandleHosts == {h \in HostScorers : h.kind # "Const"}

\* RcRefCellScorer::new
RcRefCellScorerNew(scorer) == <<[scorer |-> scorer, borrow |-> "none"]>>

\* RefCell::borrow_mut succeeds only while no borrow of the cell is live.
CanBorrowMut(cs, c) == cs[c].borrow = "none"

\* RefCell::borrow succeeds unless a mutable borrow of the cell is live.
CanBorrow(cs, c) == cs[c].borrow # "mut"

\* The cell the TwoPhase companion of the scorer in cell c refers to: the
\* scorer is its own two-phase approximation provider, so its own cell.
CompanionCell(cs, c) == c

BorrowedAdvanceOnCopy(cs, c) == cs

\* self.scorer_borrow_mut().advance(): the scorer in the cell moves.
BorrowedAdvance(cs, c) == [cs EXCEPT ![c].scorer = HostAdvance(@)]

\* seek on the scorers of the bulk helpers: forward to the first document
\* >= target.
HostSeek(h, target) ==
  LET cand == {i \in h.pos..Len(h.docs) : h.docs[i] >= target} IN
  IF HostDoc(h) >= target THEN h
  ELSE [h EXCEPT !.pos = IF cand = {} THEN Len(h.docs) + 1 ELSE MinOf(cand)]

\* self.scorer_borrow_mut().seek(doc)
BorrowedSeek(cs, c, target) == [cs EXCEPT ![c].scorer = HostSeek(@, target)]

InitHandles ==
  /\ BoolIdle
  /\ ScorerIdle
  /\ PhraseIdle
  /\ DocSetIdle
  /\ cells \in {RcRefCellScorerNew(h) : h \in HandleHosts}
  /\ companion = <<>>
  /\ hpc = "idle"
  /\ last_op = <<>>

\* handle.two_phase(): the companion is obtained once.
HandleTwoPhase ==
  /\ hpc = "idle"
  /\ companion = <<>>
  /\ IF CanBorrowMut(cells, 1)
     THEN /\ companion' = IF TwoPhase(cells[1].scorer) = "Some"
                          THEN <<CompanionCell(cells, 1)>> ELSE <<>>
          /\ last_op' = <<"two_phase", HostDoc(cells[1].scorer), 0>>
          /\ hpc' = hpc
     ELSE /\ hpc' = "borrow panicked"
          /\ UNCHANGED <<companion, last_op>>
  /\ UNCHANGED cells
  /\ UNCHANGED <<boolVars, scorerVars, phraseVars, docsetVars>>

\* handle.doc()
HandleDoc ==
  /\ hpc = "idle"
  /\ IF CanBorrow(cells, 1)
     THEN /\ last_op' = <<"doc", HostDoc(cells[1].scorer), 0>>
          /\ hpc' = hpc
     ELSE /\ hpc' = "borrow panicked"
          /\ UNCHANGED last_op
  /\ UNCHANGED <<cells, companion>>
  /\ UNCHANGED <<boolVars, scorerVars, phraseVars, docsetVars>>

\* handle.advance()
HandleAdvance ==
  /\ hpc = "idle"
  /\ IF CanBorrowMut(cells, 1)
     THEN /\ cells' = BorrowedAdvance(cells, 1)
          /\ last_op' = <<"advance", HostDoc(HostAdvance(cells[1].scorer)), 0>>
          /\ hpc' = hpc
     ELSE /\ hpc' = "borrow panicked"
          /\ UNCHANGED <<cells, last_op>>
  /\ UNCHANGED companion
  /\ UNCHANGED <<boolVars, scorerVars, phraseVars, docsetVars>>

\* handle.seek(target), target not behind the current document.
HandleSeek ==
  /\ hpc = "idle"
  /\ \E target \in DocIds :
       /\ target >= HostDoc(cells[1].scorer)
       /\ IF CanBorrowMut(cells, 1)
          THEN /\ cells' = BorrowedSeek(cells, 1, target)
               /\ last_op' =
                    <<"seek", HostDoc(HostSeek(cells[1].scorer, target)), 0>>
               /\ hpc' = hpc
          ELSE /\ hpc' = "borrow panicked"
               /\ UNCHANGED <<cells, last_op>>
  /\ UNCHANGED companion
  /\ UNCHANGED <<boolVars, scorerVars, phraseVars, docsetVars>>

\* handle.score(), on a document.
HandleScore ==
  /\ hpc = "idle"
  /\ HostDoc(cells[1].scorer) # TERMINATED
  /\ IF CanBorrowMut(cells, 1)
     THEN /\ last_op' = <<"score", HostDoc(cells[1].scorer),
                          HostScore(cells[1].scorer)>>
          /\ hpc' = hpc
     ELSE /\ hpc' = "borrow panicked"
          /\ UNCHANGED last_op
  /\ UNCHANGED <<cells, companion>>
  /\ UNCHANGED <<boolVars, scorerVars, phraseVars, docsetVars>>

\* companion.matches(), while the approximation is on a document.
CompanionMatches ==
  /\ hpc = "idle"
  /\ companion # <<>>
  /\ HostDoc(cells[companion[1]].scorer) # TERMINATED
  /\ IF CanBorrowMut(cells, companion[1])
     THEN /\ last_op' = <<"matches", HostDoc(cells[companion[1]].scorer),
                          Matches(cells[companion[1]].scorer)>>
          /\ hpc' = hpc
     ELSE /\ hpc' = "borrow panicked"
          /\ UNCHANGED last_op
  /\ UNCHANGED <<cells, companion>>
  /\ UNCHANGED <<boolVars, scorerVars, phraseVars, docsetVars>>

\* handle.for_each(callback), up to the loop of the scorer's for_each: the
\* handle's mutable borrow stays live until that for_each returns.
HandleForEach ==
  /\ hpc = "idle"
  /\ IF CanBorrowMut(cells, 1)
     THEN /\ cells' = [cells EXCEPT ![1].borrow = "mut"]
          /\ hpc' = IF TwoPhase(cells[1].scorer) = "Some"
                    THEN "for_each Some" ELSE "for_each None"
          /\ last_op' = <<"for_each", HostDoc(cells[1].scorer), 0>>
     ELSE /\ hpc' = "borrow panicked"
          /\ UNCHANGED <<cells, last_op>>
  /\ UNCHANGED companion
  /\ UNCHANGED <<boolVars, scorerVars, phraseVars, docsetVars>>

\* One turn of the loop of the scorer's for_each under the handle's borrow;
\* the companion's matches() borrows the companion's cell mutably.
HandleForEachStep ==
  /\ hpc \in {"for_each Some", "for_each None"}
  /\ LET scorer == cells[1].scorer
         doc == HostDoc(scorer) IN
     IF doc = TERMINATED
     THEN /\ cells' = [cells EXCEPT ![1].borrow = "none"]
          /\ hpc' = IF hpc = "for_each Some" THEN "returned" ELSE "todo panicked"
          /\ UNCHANGED last_op
     ELSE IF hpc = "for_each Some" /\ ~CanBorrowMut(cells, CompanionCell(cells, 1))
     THEN /\ hpc' = "borrow panicked"
          /\ last_op' = <<"matches", doc, FALSE>>
          /\ UNCHANGED cells
     ELSE /\ cells' = [cells EXCEPT ![1].scorer = HostAdvance(@)]
          /\ last_op' = <<"advance", HostDoc(HostAdvance(scorer)), 0>>
          /\ hpc' = hpc
  /\ UNCHANGED companion
  /\ UNCHANGED <<boolVars, scorerVars, phraseVars, docsetVars>>

NextHandles ==
  \/ HandleTwoPhase
  \/ HandleDoc
  \/ HandleAdvance
  \/ HandleSeek
  \/ HandleScore
  \/ CompanionMatches
  \/ HandleForEach
  \/ HandleForEachStep

SpecHandles == InitHandles /\ [][NextHandles]_vars

\* --------------------------------------- SpecHandles: properties
\* C17: while the scorer is used through its shared handles (advance, seek,
\* score, two_phase, matches, for_each) the runtime borrow check never
\* fires, in particular not when for_each is run through a handle and the
\* companion refers to the same cell.
C17_BorrowCheckNeverFires == hpc # "borrow panicked"

\* Where it fires: only inside handle.for_each, at the first matches() of a
\* scorer that has a companion and stands on a document.
C17_FiresOnlyInForEach ==
  hpc = "borrow panicked"
  => /\ cells[1].borrow = "mut"
     /\ TwoPhase(cells[1].scorer) = "Some"
     /\ HostDoc(cells[1].scorer) # TERMINATED
     /\ last_op[1] = "matches"

\* Calls made one after the other through the handles never trip it.
C17_SequentialCallsPass ==
  hpc = "idle" => \A c \in DOMAIN cells : cells[c].borrow = "none"

====
